---- MODULE Spec2Model ----
(***************************************************************************)
(* Model of the flavor database dashboard (flavor_analysis5.py and         *)
(* flavor_analysis7.py): the Record Store kept in st.session_state.data,   *)
(* the backing file flavor_database.csv, and the handlers that mutate      *)
(* them: load_db, save_db, load_data_from_excel, smart_add, clear_db.      *)
(*                                                                         *)
(* A text is a sequence of one-character strings, so that str.strip() and  *)
(* the comparison with 'nan' are computed and not assumed.  A Flavor       *)
(* Record is a triple <<ingredient, compound, descriptor>> of texts, and   *)
(* the table is the sequence of its rows, in row order.                    *)
(***************************************************************************)
EXTENDS Integers, Sequences, FiniteSets, TLC

\* ------------------------------------------------------------------ bounds
\* Largest table the model lets an operation build.
MaxRows == 6

\* Most writes of the backing file that fail in one behaviour.
MaxFaults == 1

\* ------------------------------------------------------------------ texts
SP == " "
empty == <<>>
blank == <<SP>>
nan == <<"n", "a", "n">>
x == <<"x">>
y == <<"y">>
z == <<"z">>
C1 == <<"C", "1">>
C2 == <<"C", "2">>
d1 == <<"d", "1">>
d2 == <<"d", "2">>
extra == <<"e">>

\* str.strip(): removes the leading and the trailing whitespace.
RECURSIVE lstrip(_)
lstrip(s) == IF s # <<>> /\ Head(s) = SP THEN lstrip(Tail(s)) ELSE s

RECURSIVE rstrip(_)
rstrip(s) ==
    IF s # <<>> /\ s[Len(s)] = SP THEN rstrip(SubSeq(s, 1, Len(s) - 1)) ELSE s

strip(s) == rstrip(lstrip(s))

\* ------------------------------------------------------------------ tables
\* The set of the rows of a table.
RowSet(df) == {df[k] : k \in 1..Len(df)}

\* Series.unique(): the distinct values, in order of first appearance.
RECURSIVE unique(_)
unique(s) ==
    IF s = <<>> THEN <<>>
    ELSE LET r == unique(SubSeq(s, 1, Len(s) - 1))
             v == s[Len(s)]
         IN IF \E k \in 1..Len(r) : r[k] = v THEN r ELSE Append(r, v)

\* Variant: no deduplication at all.
drop_duplicates_none(df) == df

\* Variant: drop_duplicates(keep=False), which drops every row that occurs
\* more than once.
drop_duplicates_keep_false(df) ==
    SelectSeq(df, LAMBDA r : Cardinality({k \in 1..Len(df) : df[k] = r}) = 1)

\* DataFrame.drop_duplicates().reset_index(drop=True): keeps the first
\* occurrence of every row.
drop_duplicates(df) == unique(df)

\* df[col]: one column of a table.
Column(df, c) == [k \in 1..Len(df) |-> df[k][c]]

\* ------------------------------------------------------------------ cells
\* A cell as the pandas reader delivers it: a missing value (NaN) or a text.
NaN == [na |-> TRUE, s |-> <<>>]
Str(t) == [na |-> FALSE, s |-> t]

\* .astype(str): a missing value becomes the text 'nan'.
astype_str(cell) == IF cell.na THEN nan ELSE cell.s

\* .replace('nan', ''): a cell that is exactly 'nan' becomes the empty text.
replace_nan(t) == IF t = nan THEN <<>> ELSE t

\* df.iloc[:, :3] with the three schema names, then
\* .astype(str).replace('nan', ''), row by row.
Normalize(rows) ==
    [k \in 1..Len(rows) |->
        <<replace_nan(astype_str(rows[k][1])),
          replace_nan(astype_str(rows[k][2])),
          replace_nan(astype_str(rows[k][3]))>>]

\* ------------------------------------------------------------------ backing file
\* flavor_database.csv: absent, present but unparseable, or a header and rows
\* of three text fields.
NoFile == [exists |-> FALSE, ok |-> TRUE, rows |-> <<>>]
BadFile == [exists |-> TRUE, ok |-> FALSE, rows |-> <<>>]

\* DataFrame.to_csv(DB_FILE, index=False): one line of three fields per row.
to_csv(df) == [exists |-> TRUE, ok |-> TRUE, rows |-> df]

\* pd.read_csv(DB_FILE): an empty field is read as a missing value.
read_csv(f) ==
    [k \in 1..Len(f.rows) |->
        [c \in 1..3 |-> IF f.rows[k][c] = <<>> THEN NaN ELSE Str(f.rows[k][c])]]

EmptyTable == <<>>

\* load_db(): the table of a new session.
load_db(f) ==
    IF f.exists
    THEN IF f.ok THEN Normalize(read_csv(f)) ELSE EmptyTable
    ELSE EmptyTable

\* Variant: the rows are added to those the file holds already.
save_db_append(df, f, fails) ==
    IF df = <<>> \/ fails THEN f
    ELSE [exists |-> TRUE, ok |-> TRUE, rows |-> unique(f.rows \o df)]

\* save_db(): the backing file afterwards.  Nothing is written for an empty
\* table; a write that raises (fails = TRUE) is caught and leaves the file as
\* it was.
save_db(df, f, fails) == IF df = <<>> \/ fails THEN f ELSE to_csv(df)

\* ------------------------------------------------------------------ import
\* An uploaded spreadsheet: unreadable, or ncols columns and rows of cells.
Sheet(n, rows) == [readable |-> TRUE, ncols |-> n, rows |-> rows]

ImportFiles ==
    [A |-> Sheet(3, << <<Str(x), Str(C1), Str(d1)>>,
                       <<Str(x), Str(C1), Str(d2)>>,
                       <<Str(y), Str(C2), Str(d1)>> >>),
     B |-> Sheet(4, << <<NaN, Str(C1), Str(d1), Str(extra)>>,
                       <<Str(nan), Str(C2), Str(d2), Str(extra)>>,
                       <<Str(y), Str(C2), Str(d1), Str(extra)>>,
                       <<Str(y), Str(C2), Str(d1), NaN>>,
                       <<Str(x), NaN, Str(d2), Str(extra)>> >>),
     E |-> Sheet(3, << <<NaN, Str(C1), Str(d1)>> >>),
     S |-> Sheet(2, << <<Str(x), Str(C1)>> >>),
     U |-> [readable |-> FALSE, ncols |-> 0, rows |-> <<>>]]

ImportIds == DOMAIN ImportFiles

\* Least number of columns of an accepted sheet.
MinCols == 3

\* The rows an accepted sheet contributes: normalized, and without the rows
\* whose ingredient is empty.
ImportRows(src) == SelectSeq(Normalize(src.rows), LAMBDA r : r[1] # <<>>)

\* Variant: the new rows replace the table instead of being appended to it.
Merge_replace(df, rows) == drop_duplicates(rows)

\* pd.concat([data, df]).drop_duplicates().reset_index(drop=True)
Merge(df, rows) == drop_duplicates(df \o rows)

\* Whether load_data_from_excel reaches the merge: read_excel did not raise
\* and the sheet has at least three columns.
Accepted(src) == src.readable /\ src.ncols >= MinCols

\* Variant: a rejected import resets the table, as a failed load_db does.
load_data_from_excel_reset(df, src) ==
    IF Accepted(src) THEN Merge(df, ImportRows(src)) ELSE <<>>

\* load_data_from_excel(file): the table afterwards.
load_data_from_excel(df, src) ==
    IF Accepted(src) THEN Merge(df, ImportRows(src)) ELSE df

\* ------------------------------------------------------------------ smart_add
\* The values of ing, comp, desc that smart_add branches on and inserts:
\* flavor_analysis5 strips them first, flavor_analysis7 takes them as typed.
Fields(a, ing, comp, desc) ==
    IF a = "v5" THEN <<strip(ing), strip(comp), strip(desc)>>
    ELSE <<ing, comp, desc>>

\* Variant: only the first compound that carries the descriptor.
matched_comps_first(df, d) ==
    LET ms == unique(Column(SelectSeq(df, LAMBDA r : r[3] = d), 2))
    IN IF ms = <<>> THEN <<>> ELSE <<ms[1]>>

\* df[df[descriptor] == d][compound].unique()
matched_comps(df, d) == unique(Column(SelectSeq(df, LAMBDA r : r[3] = d), 2))

\* Variant: the descriptors of the whole table, whatever the compound.
related_descs_all(df, m) == unique(Column(df, 3))

\* df[df[compound] == m][descriptor].unique()
related_descs(df, m) == unique(Column(SelectSeq(df, LAMBDA r : r[2] = m), 3))

\* The rows the inference loop appends, compound by compound.
RECURSIVE InferRows(_, _, _)
InferRows(df, i, ms) ==
    IF ms = <<>> THEN <<>>
    ELSE LET m == ms[Len(ms)]
             rs == related_descs(df, m)
         IN InferRows(df, i, SubSeq(ms, 1, Len(ms) - 1))
              \o [k \in 1..Len(rs) |-> <<i, m, rs[k]>>]

\* Variant: when no compound carries the descriptor, the form's own values
\* are inserted.
new_rows_literal(df, i, c, d) ==
    IF i # <<>> /\ c # <<>> /\ d # <<>> THEN << <<i, c, d>> >>
    ELSE IF i # <<>> /\ d # <<>> /\ c = <<>>
         THEN IF matched_comps(df, d) = <<>> THEN << <<i, c, d>> >>
              ELSE InferRows(df, i, matched_comps(df, d))
         ELSE <<>>

\* new_rows at the end of the case analysis of smart_add (empty on both
\* early returns).
new_rows(df, i, c, d) ==
    IF i # <<>> /\ c # <<>> /\ d # <<>> THEN << <<i, c, d>> >>
    ELSE IF i # <<>> /\ d # <<>> /\ c = <<>>
         THEN InferRows(df, i, matched_comps(df, d))
         ELSE <<>>

\* ------------------------------------------------------------------ graph
\* Least number of chosen compounds that makes a secondary ingredient strong.
StrongMin == 2

\* Edge weights, in tenths: 2.5 in flavor_analysis5 and 3 in flavor_analysis7
\* for the edges of a strong secondary ingredient, 1 otherwise.
StrongWeight(a) == IF a = "v5" THEN 25 ELSE 30
BaseWeight == 10

\* The elements of a list.
Elems(s) == {s[k] : k \in 1..Len(s)}

\* The entries of s at the positions in I, in order.
RECURSIVE Pick(_, _)
Pick(s, I) ==
    IF s = <<>> THEN <<>>
    ELSE LET r == Pick(SubSeq(s, 1, Len(s) - 1), I)
         IN IF Len(s) \in I THEN Append(r, s[Len(s)]) ELSE r

\* The options of the ingredient picker: df[ingredient].unique().
IngOptions(df) == unique(Column(df, 1))

\* The options of the compound pickers: the compounds of the records of the
\* selected ingredients.
CompOptions(df, sel) ==
    unique(Column(SelectSeq(df, LAMBDA r : r[1] \in Elems(sel)), 2))

\* df[df[compound].isin(selected_comps)]
Subset(df, comps) == SelectSeq(df, LAMBDA r : r[2] \in Elems(comps))

\* sec_ings = [x for x in l2[ingredient].unique() if x not in sel_ings]
sec_ings(df, sel, comps) ==
    SelectSeq(unique(Column(Subset(df, comps), 1)), LAMBDA i : i \notin Elems(sel))

\* Variant: counts the records of the ingredient instead of its distinct
\* compounds.
IsStrong_rows(subset, ing) ==
    Len(SelectSeq(subset, LAMBDA r : r[1] = ing)) >= StrongMin

\* len(subset[subset[ingredient] == ing][compound].unique()) >= 2
IsStrong(subset, ing) ==
    Len(unique(Column(SelectSeq(subset, LAMBDA r : r[1] = ing), 2))) >= StrongMin

strong_sec(subset, secondary) ==
    SelectSeq(secondary, LAMBDA i : IsStrong(subset, i))

normal_sec(subset, secondary) ==
    SelectSeq(secondary, LAMBDA i : ~IsStrong(subset, i))

\* nx.Graph: the nodes in insertion order, each with its group, and the
\* undirected edges, each with its weight.
EmptyGraph == [nodes |-> <<>>, edges |-> <<>>]

HasNode(G, n) == \E k \in 1..Len(G.nodes) : G.nodes[k].name = n

\* G.add_node(n, group=g): a node that exists keeps its place and takes the
\* new group.
add_node(G, n, g) ==
    IF HasNode(G, n)
    THEN [G EXCEPT !.nodes =
            [k \in 1..Len(G.nodes) |->
                IF G.nodes[k].name = n THEN [name |-> n, group |-> g]
                ELSE G.nodes[k]]]
    ELSE [G EXCEPT !.nodes = Append(G.nodes, [name |-> n, group |-> g])]

\* The implicit node of add_edge: created without a group when missing.
touch_node(G, n) ==
    IF HasNode(G, n) THEN G
    ELSE [G EXCEPT !.nodes = Append(G.nodes, [name |-> n, group |-> "none"])]

\* G.add_edge(u, v, weight=w): one edge per unordered pair.
add_edge(G, u, v, w) ==
    LET H == touch_node(touch_node(G, u), v)
        same(e) == {e.u, e.v} = {u, v}
    IN IF \E k \in 1..Len(H.edges) : same(H.edges[k])
       THEN [H EXCEPT !.edges =
               [k \in 1..Len(H.edges) |->
                   IF same(H.edges[k]) THEN [H.edges[k] EXCEPT !.w = w]
                   ELSE H.edges[k]]]
       ELSE [H EXCEPT !.edges = Append(H.edges, [u |-> u, v |-> v, w |-> w])]

\* for n in names: if n not in skip: G.add_node(n, group=g)
RECURSIVE AddNodes(_, _, _, _)
AddNodes(G, names, g, skip) ==
    IF names = <<>> THEN G
    ELSE LET H == AddNodes(G, SubSeq(names, 1, Len(names) - 1), g, skip)
             n == names[Len(names)]
         IN IF n \in skip THEN H ELSE add_node(H, n, g)

\* for _, row in subset.iterrows(): the edge of every row whose ingredient is
\* selected or secondary.
RECURSIVE AddEdges(_, _, _, _, _, _)
AddEdges(G, rows, sel, secondary, strong, a) ==
    IF rows = <<>> THEN G
    ELSE LET H == AddEdges(G, SubSeq(rows, 1, Len(rows) - 1),
                           sel, secondary, strong, a)
             r == rows[Len(rows)]
         IN IF r[1] \in Elems(sel) \/ r[1] \in Elems(secondary)
            THEN add_edge(H, r[1], r[2],
                          IF r[1] \in Elems(strong) THEN StrongWeight(a)
                          ELSE BaseWeight)
            ELSE H

\* get_graph_data(selected_ings, selected_comps, secondary_ings), and the
\* same steps of draw_enhanced_network.
get_graph_data(df, a, sel, comps, secondary) ==
    LET subset == Subset(df, comps)
        strong == strong_sec(subset, secondary)
        normal == normal_sec(subset, secondary)
        G1 == AddNodes(EmptyGraph, sel, "input", {})
        G2 == AddNodes(G1, comps, "comp", {})
        G3 == AddNodes(G2, strong, "gold", Elems(sel))
        G4 == AddNodes(G3, normal, "normal", Elems(sel))
    IN AddEdges(G4, subset, sel, secondary, strong, a)

\* ------------------------------------------------------------------ state
VARIABLES
    app,    \* which of the two programs the session runs: "v5" or "v7"
    data,   \* st.session_state.data
    file,   \* the backing file flavor_database.csv
    last,   \* the last handler run, its inputs and the state it started from
    faults, \* how many writes of the backing file have failed
    view,   \* the selection and the graph of the last rendering request
    other   \* st.session_state.data of a second session on the same file

vars == <<app, data, file, last, faults, view, other>>

Apps == {"v5", "v7"}

\* Backing files a session can start from.
InitFiles ==
    {NoFile, BadFile,
     to_csv(<< <<x, C1, d1>>, <<x, C1, d2>>, <<y, C2, d1>> >>)}

\* Submissions of the add form: the texts typed into its three inputs.
AddInputs ==
    {<<z, empty, d1>>,               \* ingredient and descriptor
     <<empty, C1, d1>>,              \* no ingredient
     <<z, C1, empty>>,               \* no descriptor
     <<blank, C1, d1>>,              \* whitespace for the ingredient
     <<<<SP>> \o z, blank, d2 \o <<SP>>>>,  \* padded, whitespace compound
     <<nan, C1, d1>>}                \* all three, the ingredient reads 'nan'

Op(o, i, c, d, s, t) ==
    [op |-> o, ing |-> i, comp |-> c, desc |-> d, src |-> s,
     pre |-> data, prefile |-> file, twice |-> t]

\* A handler that ends in save_db(): the write succeeds, or it raises.
Save(nd) ==
    \E fails \in {FALSE} \cup (IF faults < MaxFaults /\ nd # <<>> THEN {TRUE} ELSE {}) :
        /\ file' = save_db(nd, file, fails)
        /\ faults' = IF fails THEN faults + 1 ELSE faults

\* The demo tables of the two programs, one word per name (the Chinese names
\* are written in pinyin).
T(word) == <<word>>

DemoData(a) ==
    IF a = "v5"
    THEN << <<T("wandou"), T("Comp1"), T("desc")>>,
            <<T("wandou"), T("Comp2"), T("desc")>>,
            <<T("wandou"), T("Comp3"), T("desc")>>,
            <<T("lajiao"), T("Comp2"), T("desc")>>,
            <<T("lajiao"), T("Comp3"), T("desc")>>,
            <<T("lajiao"), T("Comp4"), T("desc")>>,
            <<T("ceshiA"), T("Comp2"), T("desc")>>,
            <<T("ceshiA"), T("Comp3"), T("desc")>>,
            <<T("ceshiB"), T("Comp1"), T("desc")>>,
            <<T("ceshiB"), T("Comp4"), T("desc")>> >>
    ELSE << <<T("wandou"), T("Comp1"), T("xingrenwei")>>,
            <<T("wandou"), T("Comp2"), T("guoxiang")>>,
            <<T("wandou"), T("Comp3"), T("youzhiwei")>>,
            <<T("lajiao"), T("Comp2"), T("shengqingwei")>>,
            <<T("lajiao"), T("Comp3"), T("youzhiwei")>>,
            <<T("lajiao"), T("Comp4"), T("xinla")>>,
            <<T("ceshiA"), T("Comp2"), T("guoxiang")>>,
            <<T("ceshiA"), T("Comp3"), T("youzhiwei")>>,
            <<T("ceshiB"), T("Comp1"), T("xingrenwei")>>,
            <<T("ceshiB"), T("Comp4"), T("xinla")>>,
            <<T("ceshiC"), T("Comp2"), T("shengqingwei")>>,
            <<T("ceshiC"), T("Comp5"), T("teshuwei")>>,
            <<T("ceshiC"), T("Comp6"), T("jianguowei")>> >>

\* No rendering request yet.
NoView == [sel |-> <<>>, comps |-> <<>>, sec |-> <<>>, G |-> EmptyGraph]

Init ==
    /\ app \in Apps
    /\ file \in InitFiles
    /\ data = load_db(file)
    /\ last = [op |-> "start", ing |-> <<>>, comp |-> <<>>, desc |-> <<>>,
               src |-> "", pre |-> <<>>, prefile |-> NoFile, twice |-> FALSE]
    /\ faults = 0
    /\ view = NoView
    /\ other = EmptyTable

\* A new session of the same program: load_db() fills the table from the
\* backing file.
Startup ==
    /\ data' = load_db(file)
    /\ last' = Op("load_db", <<>>, <<>>, <<>>, "", FALSE)
    /\ UNCHANGED <<app, file, faults, view, other>>

\* The import button: load_data_from_excel(uploaded).
Import ==
    \E id \in ImportIds :
        LET src == ImportFiles[id]
            nd == load_data_from_excel(data, src)
        IN /\ (Len(nd) <= MaxRows \/ Len(nd) <= Len(data))
           /\ data' = nd
           /\ IF Accepted(src)
              THEN Save(nd)
              ELSE UNCHANGED <<file, faults>>
           /\ last' = Op("import", <<>>, <<>>, <<>>, id,
                         last.op = "import" /\ last.src = id)
           /\ UNCHANGED <<app, view, other>>

\* The add button: smart_add(ing, comp, desc).
SmartAdd ==
    \E in \in AddInputs :
        LET ing == in[1]
            comp == in[2]
            desc == in[3]
            f == Fields(app, ing, comp, desc)
            nr == new_rows(data, f[1], f[2], f[3])
            nd == IF nr # <<>> THEN Merge(data, nr) ELSE data
        IN /\ (Len(nd) <= MaxRows \/ Len(nd) <= Len(data))
           /\ data' = nd
           /\ IF nr # <<>>
              THEN Save(nd)
              ELSE UNCHANGED <<file, faults>>
           /\ last' = Op("smart_add", ing, comp, desc, "", FALSE)
           /\ UNCHANGED <<app, view, other>>

\* The demo button, shown while the table is empty: the table becomes the
\* demo table and is saved.
Demo ==
    /\ data = <<>>
    /\ data' = DemoData(app)
    /\ Save(DemoData(app))
    /\ last' = Op("demo", <<>>, <<>>, <<>>, "", FALSE)
    /\ UNCHANGED <<app, view, other>>

\* The clear button: clear_db().
Clear ==
    /\ data' = EmptyTable
    /\ file' = NoFile
    /\ last' = Op("clear_db", <<>>, <<>>, <<>>, "", FALSE)
    /\ UNCHANGED <<app, faults, view, other>>

Next == Startup \/ Import \/ SmartAdd \/ Demo \/ Clear

Spec == Init /\ [][Next]_vars

\* ------------------------------------------------------------------ rendering
\* Largest backing file the rendering sessions start from.
MaxGraphRows == 4

\* The records those files are made of; C1 is also the name of an ingredient.
GraphRecords ==
    << <<x, C1, d1>>, <<x, C2, d1>>,
       <<y, C1, d1>>, <<y, C1, d2>>, <<y, C2, d1>>,
       <<z, C1, d1>>,
       <<C1, C1, d1>>, <<C1, C2, d2>> >>

GraphFiles ==
    {to_csv(Pick(GraphRecords, I)) :
        I \in {J \in SUBSET (1..Len(GraphRecords)) :
                 J # {} /\ Cardinality(J) <= MaxGraphRows}}

InitGraph ==
    /\ app \in Apps
    /\ file \in GraphFiles
    /\ data = load_db(file)
    /\ last = [op |-> "start", ing |-> <<>>, comp |-> <<>>, desc |-> <<>>,
               src |-> "", pre |-> <<>>, prefile |-> NoFile, twice |-> FALSE]
    /\ faults = 0
    /\ view = NoView
    /\ other = EmptyTable

\* The graph tab: the user picks ingredients, then compounds among those of
\* the picked ingredients; the secondary ingredients are derived and the
\* graph is built.
Render ==
    /\ data # <<>>
    /\ \E I \in SUBSET (1..Len(IngOptions(data))) \ {{}} :
          LET sel == Pick(IngOptions(data), I)
              opts == CompOptions(data, sel)
          IN \E J \in SUBSET (1..Len(opts)) \ {{}} :
                LET comps == Pick(opts, J)
                    sec == sec_ings(data, sel, comps)
                IN view' = [sel |-> sel, comps |-> comps, sec |-> sec,
                            G |-> get_graph_data(data, app, sel, comps, sec)]
    /\ UNCHANGED <<app, data, file, last, faults, other>>

NextGraph == Render

SpecGraph == InitGraph /\ [][NextGraph]_vars

\* ------------------------------------------------------------------ two sessions
\* Two sessions of the same program on one backing file: both loaded it at
\* start, each keeps its own table (data and other) and saves it whole.
TwoSheets == {"B"}
TwoInputs == {<<z, empty, d1>>, <<nan, C1, d1>>}

InitTwo ==
    /\ app \in Apps
    /\ file \in InitFiles
    /\ data = load_db(file)
    /\ other = load_db(file)
    /\ last = [op |-> "start", ing |-> <<>>, comp |-> <<>>, desc |-> <<>>,
               src |-> "", pre |-> <<>>, prefile |-> NoFile, twice |-> FALSE]
    /\ faults = 0
    /\ view = NoView

\* The handlers of the first session.
FirstImport == Import /\ last'.src \in TwoSheets

FirstSmartAdd == SmartAdd /\ <<last'.ing, last'.comp, last'.desc>> \in TwoInputs

Op2(o, i, c, d, s) ==
    [op |-> o, ing |-> i, comp |-> c, desc |-> d, src |-> s,
     pre |-> other, prefile |-> file, twice |-> FALSE]

\* load_data_from_excel(uploaded) in the second session.
SecondImport ==
    \E id \in TwoSheets :
        LET src == ImportFiles[id]
            nd == load_data_from_excel(other, src)
        IN /\ (Len(nd) <= MaxRows \/ Len(nd) <= Len(other))
           /\ other' = nd
           /\ IF Accepted(src)
              THEN Save(nd)
              ELSE UNCHANGED <<file, faults>>
           /\ last' = Op2("import2", <<>>, <<>>, <<>>, id)
           /\ UNCHANGED <<app, data, view>>

\* smart_add(ing, comp, desc) in the second session.
SecondSmartAdd ==
    \E in \in TwoInputs :
        LET f == Fields(app, in[1], in[2], in[3])
            nr == new_rows(other, f[1], f[2], f[3])
            nd == IF nr # <<>> THEN Merge(other, nr) ELSE other
        IN /\ (Len(nd) <= MaxRows \/ Len(nd) <= Len(other))
           /\ other' = nd
           /\ IF nr # <<>>
              THEN Save(nd)
              ELSE UNCHANGED <<file, faults>>
           /\ last' = Op2("smart_add2", in[1], in[2], in[3], "")
           /\ UNCHANGED <<app, data, view>>

NextTwo == FirstImport \/ FirstSmartAdd \/ SecondImport \/ SecondSmartAdd

SpecTwo == InitTwo /\ [][NextTwo]_vars

\* ================================================================== claims
\* The fields of the last submission of the add form, as smart_add uses them.
F == Fields(app, last.ing, last.comp, last.desc)

\* The sheet of the last import.
LastSheet == ImportFiles[last.src]

NoDup(df) == \A j, k \in 1..Len(df) : df[j] = df[k] => j = k

\* The records the last handler added to the table.
Inserted == RowSet(data) \ RowSet(last.pre)

\* The records <<i, c, r>> such that some record of S has compound c and
\* descriptor d and some record of S has compound c and descriptor r.
Inferred(S, i, d) ==
    {<<i, p[1][2], p[2][3]>> :
        p \in {q \in S \X S : q[1][3] = d /\ q[2][2] = q[1][2]}}

Example == {<<x, C1, d1>>, <<x, C1, d2>>, <<y, C2, d1>>}

\* C1: an import, a smart-add or a clear that starts from a table without
\* duplicate rows leaves a table without duplicate rows.
C1_NoDuplicateRecords ==
    (last.op \in {"import", "smart_add", "clear_db"} /\ NoDup(last.pre))
        => NoDup(data)

\* An accepted import into a non-empty duplicate-free table, of a sheet that
\* repeats a stored record and also brings a new one.
C1_Witness ==
    /\ last.op = "import" /\ Accepted(LastSheet)
    /\ NoDup(last.pre) /\ last.pre # <<>>
    /\ RowSet(ImportRows(LastSheet)) \cap RowSet(last.pre) # {}
    /\ Inserted # {}

\* C2: smart_add with an ingredient i, no compound and a descriptor d that
\* some stored record carries leaves the old records plus exactly the records
\* <<i, c, r>> for the compounds c stored with d and the descriptors r stored
\* with c.
C2_InferenceExpansion ==
    (/\ last.op = "smart_add"
     /\ F[1] # <<>> /\ F[2] = <<>> /\ F[3] # <<>>
     /\ \E r \in RowSet(last.pre) : r[3] = F[3])
        => RowSet(data) = RowSet(last.pre) \cup Inferred(RowSet(last.pre), F[1], F[3])

\* An inference through two compounds that inserted three or more records.
C2_Witness ==
    /\ last.op = "smart_add"
    /\ F[1] # <<>> /\ F[2] = <<>> /\ F[3] # <<>>
    /\ Cardinality({r[2] : r \in {q \in RowSet(last.pre) : q[3] = F[3]}}) >= 2
    /\ Cardinality(Inserted) >= 3

\* The submission smart_add(z, '', d1) on the store of the example.
C3_Case ==
    /\ last.op = "smart_add"
    /\ last.ing = z /\ last.comp = empty /\ last.desc = d1
    /\ RowSet(last.pre) = Example

\* C3 as stated: on the store {(x,C1,d1),(x,C1,d2),(y,C2,d1)},
\* smart_add(z, '', d1) inserts exactly (z,C1,d1) and (z,C1,d2).
C3_AsStated == C3_Case => Inserted = {<<z, C1, d1>>, <<z, C1, d2>>}

\* C3 amended: on that store, smart_add(z, '', d1) inserts exactly
\* (z,C1,d1), (z,C1,d2) and (z,C2,d1), the last because C2 carries d1 too.
C3_ExampleExpansion ==
    C3_Case => Inserted = {<<z, C1, d1>>, <<z, C1, d2>>, <<z, C2, d1>>}

\* The example has been run.
C3_Witness == C3_Case /\ Len(data) = 6

\* C4: smart_add inserts nothing and leaves table and backing file as they
\* were when the ingredient or the descriptor is empty, whatever the compound,
\* and when the compound is empty and no stored record has the descriptor.
C4_NoInsertion ==
    (/\ last.op = "smart_add"
     /\ \/ F[1] = <<>>
        \/ F[3] = <<>>
        \/ /\ F[2] = <<>>
           /\ \A r \in RowSet(last.pre) : r[3] # F[3])
        => (data = last.pre /\ file = last.prefile)

\* A submission with ingredient and descriptor, on a non-empty table in which
\* no record has that descriptor.
C4_Witness ==
    /\ last.op = "smart_add"
    /\ F[1] # <<>> /\ F[2] = <<>> /\ F[3] # <<>>
    /\ last.pre # <<>> /\ last.prefile.exists
    /\ \A r \in RowSet(last.pre) : r[3] # F[3]

\* C5: smart_add works on the trimmed inputs: every inserted record carries
\* the trimmed ingredient, a whitespace-only ingredient inserts nothing, and a
\* whitespace-only compound selects the inference case.
C5_TrimmedInputs ==
    last.op = "smart_add" =>
        LET i == strip(last.ing)
            c == strip(last.comp)
            d == strip(last.desc)
        IN /\ \A r \in Inserted : r[1] = i
           /\ i = <<>> => data = last.pre
           /\ (i # <<>> /\ c = <<>> /\ d # <<>>)
                => Inserted \subseteq Inferred(RowSet(last.pre), i, d)

\* C6: importing an accepted sheet a second time in a row leaves the set of
\* records of the first import.
C6_ImportIdempotent ==
    (last.op = "import" /\ last.twice /\ Accepted(LastSheet))
        => RowSet(data) = RowSet(last.pre)

\* The second of two imports in a row of a sheet that contributes rows.
C6_Witness ==
    /\ last.op = "import" /\ last.twice /\ Accepted(LastSheet)
    /\ ImportRows(LastSheet) # <<>>
    /\ Len(data) >= 4

\* C7: every record of the table before an import or a smart-add is in the
\* table after it.
C7_MergeKeepsRecords ==
    last.op \in {"import", "smart_add"}
        => RowSet(last.pre) \subseteq RowSet(data)

\* An accepted import that added records to a table holding a record the
\* sheet does not have.
C7_Witness ==
    /\ last.op = "import" /\ Accepted(LastSheet)
    /\ Inserted # {}
    /\ RowSet(last.pre) \ RowSet(ImportRows(LastSheet)) # {}

\* C8: after an accepted import, no row of the sheet whose ingredient is
\* empty after normalization is in the table.
C8_NoEmptyIngredientRow ==
    (last.op = "import" /\ Accepted(LastSheet))
        => \A r \in RowSet(Normalize(LastSheet.rows)) :
               r[1] = <<>> => r \notin RowSet(data)

\* C9: an import of an unreadable sheet or of a sheet with fewer than three
\* columns leaves the table and the backing file as they were.
C9_FailedImportNoChange ==
    (last.op = "import" /\ ~Accepted(LastSheet))
        => (data = last.pre /\ file = last.prefile)

\* A sheet with two columns was rejected while the table held records.
C9_Witness ==
    /\ last.op = "import"
    /\ LastSheet.readable /\ LastSheet.ncols < MinCols
    /\ LastSheet.rows # <<>>
    /\ last.pre # <<>>

\* C10: writing a non-empty table to the backing file and loading the file in
\* a new session gives the same set of records.
C10_RoundTrip ==
    data # <<>> => RowSet(load_db(save_db(data, file, FALSE))) = RowSet(data)

\* ------------------------------------------------------------------ graph claims
Rendered == view # NoView

\* The groups of the nodes named n in the graph of the view.
Groups(n) ==
    {view.G.nodes[k].group :
        k \in {j \in 1..Len(view.G.nodes) : view.G.nodes[j].name = n}}

\* The chosen compounds that some record links to ingredient s.
Links(s) ==
    {r[2] : r \in {q \in RowSet(data) : q[1] = s /\ q[2] \in Elems(view.comps)}}

\* The ingredients of the records with a chosen compound that are not
\* selected.
Secondary ==
    {r[1] : r \in {q \in RowSet(data) : q[2] \in Elems(view.comps)}}
        \ Elems(view.sel)

IngredientGroups == {"input", "gold", "normal"}

\* C11: the secondary ingredients are the unselected ingredients of the
\* records with a chosen compound; each is linked to at least one chosen
\* compound and is strong exactly when it is linked to two or more distinct
\* chosen compounds, weak when it is linked to exactly one, however many
\* records link it to the same compound.
C11_StrongWeakThreshold ==
    Rendered =>
        /\ Elems(view.sec) = Secondary
        /\ \A s \in Secondary :
              /\ Cardinality(Links(s)) >= 1
              /\ Cardinality(Links(s)) >= 2 <=> Groups(s) = {"gold"}
              /\ Cardinality(Links(s)) = 1 <=> Groups(s) = {"normal"}

\* A rendering with two chosen compounds in which a secondary ingredient has
\* two records for one chosen compound and none for the other.
C11_Witness ==
    /\ Rendered
    /\ Len(view.comps) >= 2
    /\ \E s \in Secondary :
          /\ Cardinality(Links(s)) = 1
          /\ Cardinality({q \in RowSet(data) :
                            q[1] = s /\ q[2] \in Elems(view.comps)}) >= 2

\* C12: every selected primary ingredient is exactly one node of the graph,
\* tagged primary-input, and every node carries one of the four categories.
C12_PrimaryDominates ==
    Rendered =>
        /\ \A p \in Elems(view.sel) :
              /\ Cardinality({k \in 1..Len(view.G.nodes) :
                                view.G.nodes[k].name = p}) = 1
              /\ Groups(p) = {"input"}
        /\ \A k \in 1..Len(view.G.nodes) :
              view.G.nodes[k].group \in IngredientGroups \cup {"comp"}

\* C14: every edge of the graph joins a node of an ingredient category to a
\* node tagged compound, and no edge is a self-loop.
C14_EdgesIngredientToCompound ==
    Rendered =>
        \A k \in 1..Len(view.G.edges) :
            LET e == view.G.edges[k]
            IN /\ e.u # e.v
               /\ \/ Groups(e.u) \subseteq IngredientGroups /\ Groups(e.v) = {"comp"}
                  \/ Groups(e.v) \subseteq IngredientGroups /\ Groups(e.u) = {"comp"}

\* ------------------------------------------------------------------ persistence claims
\* The last handler completed a mutating path: an accepted import, a
\* smart-add that reached the insertion, the demo data, or a clear.
Mutated ==
    \/ last.op = "import" /\ Accepted(LastSheet)
    \/ last.op = "smart_add" /\ new_rows(last.pre, F[1], F[2], F[3]) # <<>>
    \/ last.op \in {"demo", "clear_db"}

\* C13: when no write has failed, after every completed mutating action the
\* backing file holds exactly the rows of the table, or holds no row or is
\* absent when the table is empty.
C13_WriteThrough ==
    (Mutated /\ faults = 0) =>
        IF data = <<>>
        THEN ~file.exists \/ (file.ok /\ file.rows = <<>>)
        ELSE file = to_csv(data)

\* The last handler reached save_db() in the first, in the second session.
SavedFirst ==
    \/ last.op = "import" /\ Accepted(LastSheet)
    \/ last.op = "smart_add" /\ new_rows(last.pre, F[1], F[2], F[3]) # <<>>

SavedSecond ==
    \/ last.op = "import2" /\ Accepted(LastSheet)
    \/ last.op = "smart_add2" /\ new_rows(last.pre, F[1], F[2], F[3]) # <<>>

\* C15: with two sessions on one backing file and no failed write, a save
\* leaves the file equal to the table of the session that saved, whatever
\* the other session had written, and a handler of a session removes no
\* record from that session's table.
C15_LastWriterWins ==
    faults = 0 =>
        /\ (SavedFirst /\ data # <<>>) => file = to_csv(data)
        /\ (SavedSecond /\ other # <<>>) => file = to_csv(other)
        /\ last.op \in {"import", "smart_add"}
              => RowSet(last.pre) \subseteq RowSet(data)
        /\ last.op \in {"import2", "smart_add2"}
              => RowSet(last.pre) \subseteq RowSet(other)

\* A lost update: the second session has just saved, and a record the first
\* session added to its table is not in the file.
C15_Witness ==
    /\ faults = 0
    /\ SavedSecond
    /\ file = to_csv(other)
    /\ RowSet(data) \ RowSet(file.rows) # {}
    /\ RowSet(other) \ RowSet(data) # {}

====
